---- MODULE Spec2Model ----
(***************************************************************************)
(* Model of the hotels API of drivent: the router (hotels-router.ts), the  *)
(* two controllers (hotels-controller.ts), the service                     *)
(* (hotels-service/index.ts) and the hotel repository                      *)
(* (hotel-repository/index.ts), over a persistence store holding the      *)
(* Enrollment, Ticket, Hotel and Room tables.                              *)
(*                                                                         *)
(* A request is received, passes through the handlers the router has       *)
(* registered for its path, one handler per step, and ends with a response.*)
(* The store is read-only on this path: Init draws it from bounded sets.   *)
(***************************************************************************)
EXTENDS Integers, Sequences, FiniteSets

VARIABLES
  Enrollment,     \* table: set of [id, userId], one per user at most
  Ticket,         \* table: set of [enrollmentId, status, TicketType]
  Hotel,          \* table: set of [id]
  Room,           \* table: set of [id, hotelId]
  req,            \* the request in flight: [token, path, hotelId, userId]
  stack,          \* handlers of the route still to run for req
  res,            \* the response: [status, hotels, hotelRooms]
  ran,            \* handlers that have run for req, in order
  lookups,        \* persistence lookups performed for req, in order
  serviceResult   \* what the service call of the handler produced

vars == <<Enrollment, Ticket, Hotel, Room, req, stack, res, ran, lookups, serviceResult>>

store == <<Enrollment, Ticket, Hotel, Room>>

----------------------------------------------------------------------------
(* Bounds *)

MaxUsers == 1

MaxHotels == 2

MaxRooms == 2

MaxParamLen == 1

Users == 1 .. MaxUsers

HotelIds == 1 .. MaxHotels

RoomIds == 1 .. MaxRooms

----------------------------------------------------------------------------
(* HTTP statuses (http-status) *)

OK == 200

BAD_REQUEST == 400

UNAUTHORIZED == 401

PAYMENT_REQUIRED == 402

NOT_FOUND == 404

----------------------------------------------------------------------------
(* The store *)

TicketStatus == {"RESERVED", "PAID"}

TicketTypes == [isRemote : BOOLEAN, includesHotel : BOOLEAN]

\* The ids the enrollment table hands out are its own sequence, not the
\* user ids: the enrollment of user u, when it exists, has id MaxUsers + u.
EnrollmentIdOf(u) == MaxUsers + u

EnrollmentTables ==
  { { [id |-> EnrollmentIdOf(u), userId |-> u] : u \in S } : S \in SUBSET Users }

TicketTables(E) ==
  LET ids == { e.id : e \in E }
      vals == [status : TicketStatus, TicketType : TicketTypes]
  IN UNION { { { [enrollmentId |-> i, status |-> f[i].status, TicketType |-> f[i].TicketType]
                 : i \in T } : f \in [T -> vals] } : T \in SUBSET ids }

HotelTables == { { [id |-> h] : h \in S } : S \in SUBSET HotelIds }

RoomTables(H) ==
  LET ids == { h.id : h \in H }
  IN UNION { { { [id |-> r, hotelId |-> f[r]] : r \in R } : f \in [R -> ids] }
             : R \in SUBSET RoomIds }

----------------------------------------------------------------------------
(* Requests *)

NoUser == 0

Tokens ==
  { [kind |-> "none", userId |-> NoUser], [kind |-> "invalid", userId |-> NoUser] }
  \cup { [kind |-> "valid", userId |-> u] : u \in Users }

Digits == <<"0", "1", "2">>

Chars == { Digits[i] : i \in 1 .. Len(Digits) } \cup { "a" }

\* the :hotelId path segment, as a sequence of characters
Params == UNION { [1 .. n -> Chars] : n \in 1 .. MaxParamLen }

NoReq == [token |-> [kind |-> "none", userId |-> NoUser], path |-> "", hotelId |-> <<>>, userId |-> NoUser]

NoRes == [status |-> 0, hotels |-> {}, hotelRooms |-> {}]

NoResult == [name |-> "", hotels |-> {}, hotelRooms |-> {}, lookups |-> <<>>]

----------------------------------------------------------------------------
(* Number(hotelId): a string of decimal digits converts to its value, and  *)
(* a string holding any other character of Chars converts to NaN.          *)

DigitValue(c) == CHOOSE i \in 0 .. Len(Digits) - 1 : Digits[i + 1] = c

IsDigit(c) == \E i \in 1 .. Len(Digits) : Digits[i] = c

RECURSIVE Decimal(_)
Decimal(s) ==
  IF s = <<>> THEN 0
  ELSE 10 * Decimal(SubSeq(s, 1, Len(s) - 1)) + DigitValue(s[Len(s)])

Number(s) ==
  IF \A i \in 1 .. Len(s) : IsDigit(s[i])
  THEN [nan |-> FALSE, val |-> Decimal(s)]
  ELSE [nan |-> TRUE, val |-> 0]

----------------------------------------------------------------------------
(* Repositories.  A find-first lookup returns a record or null; find-many  *)
(* returns an array, which is never null.                                  *)

Null == [isNull |-> TRUE]

enrollmentRepository_findWithAddressByUserId(userId) ==
  IF \E e \in Enrollment : e.userId = userId
  THEN LET e == CHOOSE e \in Enrollment : e.userId = userId
       IN [isNull |-> FALSE, id |-> e.id, userId |-> e.userId]
  ELSE Null

ticketRepository_findTicketByEnrollmentId(enrollmentId) ==
  IF \E t \in Ticket : t.enrollmentId = enrollmentId
  THEN LET t == CHOOSE t \in Ticket : t.enrollmentId = enrollmentId
       IN [isNull |-> FALSE, status |-> t.status, TicketType |-> t.TicketType]
  ELSE Null

\* variant: find-first in place of find-many
findHotels_first ==
  [isNull |-> FALSE, items |-> IF Hotel = {} THEN {} ELSE { CHOOSE h \in Hotel : TRUE }]

hotelRepository_findHotels == [isNull |-> FALSE, items |-> Hotel]

\* variant: the included rooms are not restricted to the hotel
RoomsOf_all(h) == Room

RoomsOf(h) == { r \in Room : r.hotelId = h.id }

\* The set of results the query can produce.  where: {id} on the integer
\* id column is defined for an integer; for NaN the source leaves the
\* outcome to the persistence client: it rejects the query or matches nothing.
hotelRepository_findHotelRooms(id) ==
  IF id.nan
  THEN { [threw |-> TRUE, items |-> {}], [threw |-> FALSE, items |-> {}] }
  ELSE { [threw |-> FALSE,
          items |-> { [id |-> h.id, Rooms |-> RoomsOf(h)] : h \in { x \in Hotel : x.id = id.val } }] }

----------------------------------------------------------------------------
(* Service *)

Return(hotels, hotelRooms, log) ==
  [name |-> "OK", hotels |-> hotels, hotelRooms |-> hotelRooms, lookups |-> log]

Throw(name, log) ==
  [name |-> name, hotels |-> {}, hotelRooms |-> {}, lookups |-> log]

notFoundError == "NotFoundError"

paymentRequiredError == "PaymentRequiredError"

\* variant: only the ticket status disqualifies
getHotels_statusOnly(userId) ==
  LET enrollment == enrollmentRepository_findWithAddressByUserId(userId)
  IN IF enrollment.isNull
     THEN Throw(notFoundError, <<"enrollment">>)
     ELSE LET ticket == ticketRepository_findTicketByEnrollmentId(enrollment.id)
          IN IF ticket.isNull
             THEN Throw(notFoundError, <<"enrollment", "ticket">>)
             ELSE IF ticket.status # "PAID"
                  THEN Throw(paymentRequiredError, <<"enrollment", "ticket">>)
                  ELSE Return(hotelRepository_findHotels.items, {}, <<"enrollment", "ticket", "hotel">>)

\* variant: the ticket is read without the check for its absence
getHotels_noTicketCheck(userId) ==
  LET enrollment == enrollmentRepository_findWithAddressByUserId(userId)
  IN IF enrollment.isNull
     THEN Throw(notFoundError, <<"enrollment">>)
     ELSE LET ticket == ticketRepository_findTicketByEnrollmentId(enrollment.id)
          IN IF ticket.isNull
             THEN Throw("TypeError", <<"enrollment", "ticket">>)
             ELSE IF \/ ticket.status # "PAID"
                     \/ ticket.TicketType.isRemote
                     \/ ~ticket.TicketType.includesHotel
                  THEN Throw(paymentRequiredError, <<"enrollment", "ticket">>)
                  ELSE Return(hotelRepository_findHotels.items, {}, <<"enrollment", "ticket", "hotel">>)

\* variant: the hotels are fetched before the enrollment and the ticket
getHotels_hotelsFirst(userId) ==
  LET hotels == hotelRepository_findHotels
      enrollment == enrollmentRepository_findWithAddressByUserId(userId)
  IN IF enrollment.isNull
     THEN Throw(notFoundError, <<"hotel", "enrollment">>)
     ELSE LET ticket == ticketRepository_findTicketByEnrollmentId(enrollment.id)
          IN IF ticket.isNull
             THEN Throw(notFoundError, <<"hotel", "enrollment", "ticket">>)
             ELSE IF \/ ticket.status # "PAID"
                     \/ ticket.TicketType.isRemote
                     \/ ~ticket.TicketType.includesHotel
                  THEN Throw(paymentRequiredError, <<"hotel", "enrollment", "ticket">>)
                  ELSE Return(hotels.items, {}, <<"hotel", "enrollment", "ticket">>)

hotelService_getHotels(userId) ==
  LET enrollment == enrollmentRepository_findWithAddressByUserId(userId)
  IN IF enrollment.isNull
     THEN Throw(notFoundError, <<"enrollment">>)
     ELSE LET ticket == ticketRepository_findTicketByEnrollmentId(enrollment.id)
          IN IF ticket.isNull
             THEN Throw(notFoundError, <<"enrollment", "ticket">>)
             ELSE IF \/ ticket.status # "PAID"
                     \/ ticket.TicketType.isRemote
                     \/ ~ticket.TicketType.includesHotel
                  THEN Throw(paymentRequiredError, <<"enrollment", "ticket">>)
                  ELSE LET hotels == hotelRepository_findHotels
                       IN IF hotels.isNull
                          THEN Throw(notFoundError, <<"enrollment", "ticket", "hotel">>)
                          ELSE Return(hotels.items, {}, <<"enrollment", "ticket", "hotel">>)

\* variant: an empty result is returned like any other
getHotelRooms_noLengthCheck(hotelId) ==
  { IF q.threw
    THEN Throw("PrismaClientValidationError", <<"hotel">>)
    ELSE Return({}, q.items, <<"hotel">>)
    : q \in hotelRepository_findHotelRooms(Number(hotelId)) }

\* the set of results of the call, one per result of the query
hotelService_getHotelRooms(hotelId) ==
  { IF q.threw
    THEN Throw("PrismaClientValidationError", <<"hotel">>)
    ELSE IF Cardinality(q.items) = 0
         THEN Throw(notFoundError, <<"hotel">>)
         ELSE Return({}, q.items, <<"hotel">>)
    : q \in hotelRepository_findHotelRooms(Number(hotelId)) }

----------------------------------------------------------------------------
(* Controllers: the response to a result of the service *)

sendStatus(status) == [status |-> status, hotels |-> {}, hotelRooms |-> {}]

getHotels_response(result) ==
  IF result.name = "OK"
  THEN [status |-> OK, hotels |-> result.hotels, hotelRooms |-> {}]
  ELSE IF result.name = "NotFoundError" THEN sendStatus(NOT_FOUND)
  ELSE IF result.name = "PaymentRequiredError" THEN sendStatus(PAYMENT_REQUIRED)
  ELSE sendStatus(BAD_REQUEST)

\* variant: no branch for NotFoundError
getHotelRooms_response_noNotFound(result) ==
  IF result.name = "OK"
  THEN [status |-> OK, hotels |-> {}, hotelRooms |-> result.hotelRooms]
  ELSE sendStatus(BAD_REQUEST)

getHotelRooms_response(result) ==
  IF result.name = "OK"
  THEN [status |-> OK, hotels |-> {}, hotelRooms |-> result.hotelRooms]
  ELSE IF result.name = "NotFoundError" THEN sendStatus(NOT_FOUND)
  ELSE sendStatus(BAD_REQUEST)

----------------------------------------------------------------------------
(* Router: the handlers registered for a path, in registration order *)

\* variant: the handlers are registered without the authentication
hotelsRouter_noAuth(path) ==
  IF path = "/" THEN <<"getHotels">> ELSE <<"getHotelRooms">>

hotelsRouter(path) ==
  IF path = "/" THEN <<"authenticateToken", "getHotels">>
  ELSE <<"authenticateToken", "getHotelRooms">>

----------------------------------------------------------------------------
(* Actions *)

Init ==
  /\ Enrollment \in EnrollmentTables
  /\ Ticket \in TicketTables(Enrollment)
  /\ Hotel \in HotelTables
  /\ Room \in RoomTables(Hotel)
  /\ req = NoReq
  /\ stack = <<>>
  /\ res = NoRes
  /\ ran = <<>>
  /\ lookups = <<>>
  /\ serviceResult = NoResult

\* a request arrives when none is in flight
Receive ==
  /\ req = NoReq
  /\ \E token \in Tokens, path \in {"/", "/:hotelId"}, p \in Params :
       /\ path = "/" => p = <<"0">>
       /\ req' = [token |-> token, path |-> path,
                  hotelId |-> IF path = "/" THEN <<>> ELSE p, userId |-> NoUser]
       /\ stack' = hotelsRouter(path)
  /\ UNCHANGED <<store, res, ran, lookups, serviceResult>>

authenticateToken ==
  /\ stack # <<>>
  /\ Head(stack) = "authenticateToken"
  /\ ran' = Append(ran, "authenticateToken")
  /\ IF req.token.kind = "valid"
     THEN /\ req' = [req EXCEPT !.userId = req.token.userId]
          /\ stack' = Tail(stack)
          /\ UNCHANGED res
     ELSE /\ res' = sendStatus(UNAUTHORIZED)
          /\ stack' = <<>>
          /\ UNCHANGED req
  /\ UNCHANGED <<store, lookups, serviceResult>>

getHotels ==
  /\ stack # <<>>
  /\ Head(stack) = "getHotels"
  /\ LET result == hotelService_getHotels(req.userId)
     IN /\ serviceResult' = result
        /\ lookups' = lookups \o result.lookups
        /\ res' = getHotels_response(result)
  /\ ran' = Append(ran, "getHotels")
  /\ stack' = <<>>
  /\ UNCHANGED <<store, req>>

getHotelRooms ==
  /\ stack # <<>>
  /\ Head(stack) = "getHotelRooms"
  /\ \E result \in hotelService_getHotelRooms(req.hotelId) :
        /\ serviceResult' = result
        /\ lookups' = lookups \o result.lookups
        /\ res' = getHotelRooms_response(result)
  /\ ran' = Append(ran, "getHotelRooms")
  /\ stack' = <<>>
  /\ UNCHANGED <<store, req>>

\* the response has been sent: the request is over, the store is as it was
Finish ==
  /\ req # NoReq
  /\ stack = <<>>
  /\ req' = NoReq
  /\ res' = NoRes
  /\ ran' = <<>>
  /\ lookups' = <<>>
  /\ serviceResult' = NoResult
  /\ UNCHANGED <<store, stack>>

Next == Receive \/ authenticateToken \/ getHotels \/ getHotelRooms \/ Finish

Spec == Init /\ [][Next]_vars

----------------------------------------------------------------------------
(* Vocabulary of the properties, read off the store and the request *)

\* handler h has answered the request in flight
Answered(h) == req # NoReq /\ stack = <<>> /\ ran # <<>> /\ ran[Len(ran)] = h

EnrollmentsOf(u) == { e \in Enrollment : e.userId = u }

TicketsOf(u) == { t \in Ticket : \E e \in EnrollmentsOf(u) : t.enrollmentId = e.id }

Qualifies(t) == t.status = "PAID" /\ ~t.TicketType.isRemote /\ t.TicketType.includesHotel

Eligible(u) == \E t \in TicketsOf(u) : Qualifies(t)

\* the stored hotels the :hotelId of the request identifies
Identified ==
  IF Number(req.hotelId).nan THEN {}
  ELSE { h \in Hotel : h.id = Number(req.hotelId).val }

----------------------------------------------------------------------------
(* Properties *)

\* C1: for a user with an enrollment and a ticket, getHotels answers 402
\* (PaymentRequired) when the ticket is not PAID, and when its type is remote,
\* and when its type does not include the hotel: each condition alone, whatever
\* the other two and whatever hotels are stored.
C1_PaymentRequired ==
  Answered("getHotels") =>
    \A t \in TicketsOf(req.userId) :
      /\ t.status # "PAID" =>
           res.status = PAYMENT_REQUIRED /\ serviceResult.name = "PaymentRequiredError"
      /\ t.TicketType.isRemote =>
           res.status = PAYMENT_REQUIRED /\ serviceResult.name = "PaymentRequiredError"
      /\ ~t.TicketType.includesHotel =>
           res.status = PAYMENT_REQUIRED /\ serviceResult.name = "PaymentRequiredError"

\* a paid, hotel-including but remote ticket, with hotels stored, answered 402
C1_Witness ==
  /\ Answered("getHotels")
  /\ Hotel # {}
  /\ \E t \in TicketsOf(req.userId) :
       t.status = "PAID" /\ t.TicketType.isRemote /\ t.TicketType.includesHotel
  /\ res.status = PAYMENT_REQUIRED

\* C2: getHotels answers 404 (NotFound) for a user without an enrollment and
\* for a user with an enrollment but no ticket, whatever hotels are stored.
C2_NotFound ==
  Answered("getHotels") /\ TicketsOf(req.userId) = {} =>
    res.status = NOT_FOUND /\ serviceResult.name = "NotFoundError"

\* an enrolled user without a ticket, with hotels stored, answered 404
C2_Witness ==
  /\ Answered("getHotels")
  /\ EnrollmentsOf(req.userId) # {}
  /\ TicketsOf(req.userId) = {}
  /\ Hotel # {}
  /\ res.status = NOT_FOUND

\* C3 (as claimed): for an eligible user, getHotels answers 404 when no hotel
\* is stored, and never 200 with an empty collection.
C3_EmptyIsNotFound ==
  Answered("getHotels") /\ Eligible(req.userId) /\ Hotel = {} =>
    res.status = NOT_FOUND

\* C4 (as claimed): getHotelRooms answers 200 only for a user with an
\* enrollment and a PAID, non-remote, hotel-including ticket.
C4_RoomsOnlyIfEligible ==
  Answered("getHotelRooms") /\ res.status = OK => Eligible(req.userId)

\* C5: for an eligible user, when at least one hotel is stored, getHotels
\* answers 200 and the collection is exactly the stored hotels.
C5_AllHotels ==
  Answered("getHotels") /\ Eligible(req.userId) /\ Hotel # {} =>
    res.status = OK /\ res.hotels = Hotel

\* an eligible user answered 200 with two stored hotels
C5_Witness ==
  /\ Answered("getHotels")
  /\ Eligible(req.userId)
  /\ Cardinality(Hotel) >= 2
  /\ res.status = OK

\* C6: for a hotelId that identifies a stored hotel, getHotelRooms returns
\* exactly one entry, whose id is that hotel's and whose Rooms are exactly the
\* rooms whose hotelId is that id.
C6_OneHotelWithItsRooms ==
  Answered("getHotelRooms") =>
    \A h \in Identified :
      /\ res.status = OK
      /\ Cardinality(res.hotelRooms) = 1
      /\ \A e \in res.hotelRooms :
           /\ e.id = h.id
           /\ e.Rooms = { r \in Room : r.hotelId = h.id }

\* a hotel with a room is returned while another hotel has a room too
C6_Witness ==
  /\ Answered("getHotelRooms")
  /\ \E h \in Identified :
       /\ \E r \in Room : r.hotelId = h.id
       /\ \E r \in Room : r.hotelId # h.id
  /\ res.status = OK

\* a hotel without rooms is returned with no rooms (N = 0)
C6_WitnessNoRooms ==
  /\ Answered("getHotelRooms")
  /\ \E h \in Identified : Room # {} /\ \A r \in Room : r.hotelId # h.id
  /\ res.status = OK

C8_StatusOfResult ==
  Answered("getHotels") \/ Answered("getHotelRooms") =>
    /\ serviceResult.name = "OK" =>
         /\ res.status = OK
         /\ res.hotels = serviceResult.hotels
         /\ res.hotelRooms = serviceResult.hotelRooms
    /\ serviceResult.name = "NotFoundError" => res.status = NOT_FOUND
    /\ serviceResult.name = "PaymentRequiredError" => res.status = PAYMENT_REQUIRED
    /\ serviceResult.name \notin {"OK", "NotFoundError", "PaymentRequiredError"} =>
         res.status = BAD_REQUEST
    /\ res.status \in {OK, NOT_FOUND, PAYMENT_REQUIRED, BAD_REQUEST}

\* a NotFound of getHotelRooms answered 404
C8_Witness ==
  /\ Answered("getHotelRooms")
  /\ serviceResult.name = "NotFoundError"
  /\ res.status = NOT_FOUND

\* an error of another kind answered 400
C8_WitnessOther ==
  /\ Answered("getHotelRooms")
  /\ serviceResult.name \notin {"OK", "NotFoundError", "PaymentRequiredError"}
  /\ res.status = BAD_REQUEST

\* C9: authentication runs before the handler on every route: for a request
\* without a valid token no handler runs, no lookup is performed, and the
\* answer is 401.
C9_AuthFirst ==
  /\ ran # <<>> => ran[1] = "authenticateToken"
  /\ req # NoReq /\ req.token.kind # "valid" =>
       /\ \A i \in 1 .. Len(ran) : ran[i] = "authenticateToken"
       /\ lookups = <<>>
       /\ serviceResult = NoResult
       /\ stack = <<>> => res.status = UNAUTHORIZED

\* a request for a stored hotel with an invalid token, answered 401
C9_Witness ==
  /\ req.token.kind = "invalid"
  /\ req.path = "/:hotelId"
  /\ Identified # {}
  /\ stack = <<>>
  /\ res.status = UNAUTHORIZED

\* C10: getHotels looks up the enrollment, then the ticket, then the hotels;
\* a lookup is made only when the earlier ones found their record (the hotels,
\* only when the ticket qualifies); the answer is that of the first failure:
\* a missing enrollment or ticket gives 404, never 402.
C10_FirstFailure ==
  Answered("getHotels") =>
    /\ lookups = SubSeq(<<"enrollment", "ticket", "hotel">>, 1, Len(lookups))
    /\ Len(lookups) >= 1
    /\ Len(lookups) >= 2 <=> EnrollmentsOf(req.userId) # {}
    /\ Len(lookups) = 3 <=> Eligible(req.userId)
    /\ EnrollmentsOf(req.userId) = {} => res.status = NOT_FOUND
    /\ EnrollmentsOf(req.userId) # {} /\ TicketsOf(req.userId) = {} => res.status = NOT_FOUND
    /\ TicketsOf(req.userId) # {} /\ ~Eligible(req.userId) => res.status = PAYMENT_REQUIRED

\* an enrolled user without a ticket: two lookups, then 404
C10_Witness ==
  /\ Answered("getHotels")
  /\ EnrollmentsOf(req.userId) # {}
  /\ TicketsOf(req.userId) = {}
  /\ Hotel # {}
  /\ lookups = <<"enrollment", "ticket">>
  /\ res.status = NOT_FOUND

====
